---- MODULE Spec2Model ----
(***************************************************************************)
(* Model of src/match.py: the Hopcroft-Karp matcher (hopcroft_karp with    *)
(* its closures bfs and dfs) and the swap matcher match_student_pairs.     *)
(*                                                                         *)
(* Nodes and student ids are positive integers; Python's None is the       *)
(* value None == 0, which is never a node or an id.  A dict is a function  *)
(* whose DOMAIN is the dict's key set.                                     *)
(***************************************************************************)
EXTENDS Integers, Sequences, FiniteSets, TLC

\* Total number of nodes (left + right) of the graphs given to hopcroft_karp.
MaxNodes == 5

\* Length of the list students_info given to match_student_pairs.
MaxStudents == 3

\* Student ids are 1..NumIds, groups are 1..NumGroups.
NumIds == 3
NumGroups == 2

\* Number of consecutive calls of match_student_pairs on the same input.
MaxCalls == 2

\* float('inf'); every finite distance is at most the number of left nodes.
INF == 99

\* Python's None (the sentinel key of dist, the default of match_right.get).
None == 0

VARIABLES
    graph,          \* dict: left node -> list of right nodes
    left_nodes,     \* list of left nodes
    match_left,     \* dict: left node -> right node
    match_right,    \* dict: right node -> left node
    match_left_keys,\* list(match_left.keys()): the dict's insertion order
    dist,           \* dict: left node or None -> distance
    matching_size,  \* number of successful top-level dfs calls
    idx,            \* position of 'for u in left_nodes' (line 49)
    seed_i,         \* bfs: position of 'for u in left_nodes' (line 18)
    queue,          \* bfs: the deque
    bfs_u,          \* bfs: u = queue.popleft() (line 26)
    scan_j,         \* bfs: position of 'for v in graph[u]' (line 28)
    stack,          \* dfs: the active calls, innermost last; a frame is
                    \* [u, j] with j the position of 'for v in graph[u]'
    retval,         \* dfs: the value the call that just returned gave
    call_left,      \* history: match_left when the top-level dfs was called
    call_right,     \* history: match_right when the top-level dfs was called
    round_base,     \* history: matching_size when the current round began
    rounds,         \* history: number of rounds whose bfs() returned True
    students_info,  \* the argument of match_student_pairs
    swaps,          \* dict: (current_group, desired_group) -> list of records
    swap_keys,      \* list(swaps.keys()): the dict's insertion order
    student_lookup, \* dict: student_id -> record
    processed_pairs,\* set of (group, group) keys
    paired_matches, \* list of sorted id pairs
    kidx,           \* position of 'for (group_A, group_B) in ...' (line 88)
    calls,          \* number of calls of match_student_pairs begun
    results,        \* the list each finished call returned, in call order
    pc

msvars == <<students_info, swaps, swap_keys, student_lookup, processed_pairs,
            paired_matches, kidx, calls, results>>

\* the dicts and counters of hopcroft_karp
hkdata == <<match_left, match_right, match_left_keys, dist, matching_size>>

\* the positions inside bfs() and dfs()
hkpos == <<idx, seed_i, queue, bfs_u, scan_j, stack, retval>>

hkhist == <<call_left, call_right, round_base, rounds>>

hkvars == <<graph, left_nodes, hkdata, hkpos, hkhist>>

vars == <<hkvars, msvars, pc>>

----------------------------------------------------------------------------
\* dict helpers

\* d[k] = v
Put(d, k, v) == [x \in DOMAIN d \cup {k} |-> IF x = k THEN v ELSE d[x]]

\* d.get(k, default)
Get(d, k, default) == IF k \in DOMAIN d THEN d[k] ELSE default

\* graph[u] of a defaultdict(list): the empty list for a missing key
Adj(g, u) == IF u \in DOMAIN g THEN g[u] ELSE <<>>

\* x + 1 on Python floats and ints: inf + 1 == inf
Succ(x) == IF x = INF THEN INF ELSE x + 1

----------------------------------------------------------------------------
\* bfs(), lines 16-33

RECURSIVE bfs_seed(_, _, _, _, _)
\* lines 18-24: the loop over left_nodes from position i, then
\* dist[None] = INF
bfs_seed(left, i, ml, d, q) ==
    IF i > Len(left)
    THEN [dist |-> Put(d, None, INF), queue |-> q]
    ELSE IF left[i] \notin DOMAIN ml
         THEN bfs_seed(left, i + 1, ml, Put(d, left[i], 0),
                       Append(q, left[i]))
         ELSE bfs_seed(left, i + 1, ml, Put(d, left[i], INF), q)

RECURSIVE bfs_scan(_, _, _, _, _, _)
\* lines 28-32: 'for v in graph[u]' from position j; v is adj[j] and
\* u_prime is match_right.get(v, None)
bfs_scan(adj, j, u, mr, d, q) ==
    IF j > Len(adj)
    THEN [dist |-> d, queue |-> q]
    ELSE IF Get(d, Get(mr, adj[j], None), INF) = INF
         THEN bfs_scan(adj, j + 1, u, mr,
                       Put(d, Get(mr, adj[j], None), Succ(d[u])),
                       Append(q, Get(mr, adj[j], None)))
         ELSE bfs_scan(adj, j + 1, u, mr, d, q)

RECURSIVE bfs_loop(_, _, _)
\* lines 25-32: 'while q', on s = [dist, q]
bfs_loop(g, mr, s) ==
    IF s.queue = <<>>
    THEN s.dist
    ELSE IF s.dist[Head(s.queue)] < s.dist[None]
         THEN bfs_loop(g, mr, bfs_scan(Adj(g, Head(s.queue)), 1, Head(s.queue),
                                       mr, s.dist, Tail(s.queue)))
         ELSE bfs_loop(g, mr, [s EXCEPT !.queue = Tail(s.queue)])

\* bfs(): the dist it leaves; it returns bfs_found of that dist
bfs(g, left, ml, mr, d) ==
    bfs_loop(g, mr, bfs_seed(left, 1, ml, d, <<>>))

\* line 33: return dist[None] != INF
bfs_found(d) == d[None] # INF

----------------------------------------------------------------------------
\* dfs(u), lines 35-45

RECURSIVE dfs(_, _, _, _, _)
RECURSIVE dfs_scan(_, _, _, _, _, _, _)

\* lines 39-42 once r = dfs(u_prime) has answered: record the edge and return
\* True, or go on with the next v
dfs_taken(r, u, v, adj, j, g) ==
    IF r.ok
    THEN [ok |-> TRUE,
          match_left |-> Put(r.match_left, u, v),
          match_right |-> Put(r.match_right, v, u),
          dist |-> r.dist]
    ELSE dfs_scan(u, adj, j + 1, g, r.match_left, r.match_right, r.dist)

\* lines 37-44: 'for v in graph[u]' from position j, then dist[u] = INF and
\* return False; u_prime is match_right.get(v, None)
dfs_scan(u, adj, j, g, ml, mr, d) ==
    IF j > Len(adj)
    THEN [ok |-> FALSE, match_left |-> ml, match_right |-> mr,
          dist |-> Put(d, u, INF)]
    ELSE IF Get(d, Get(mr, adj[j], None), INF) = Succ(d[u])
         THEN dfs_taken(dfs(Get(mr, adj[j], None), g, ml, mr, d),
                        u, adj[j], adj, j, g)
         ELSE dfs_scan(u, adj, j + 1, g, ml, mr, d)

\* dfs(u): its return value (ok) and the dicts as it leaves them
dfs(u, g, ml, mr, d) ==
    IF u # None
    THEN dfs_scan(u, Adj(g, u), 1, g, ml, mr, d)
    ELSE [ok |-> TRUE, match_left |-> ml, match_right |-> mr, dist |-> d]

----------------------------------------------------------------------------
\* hopcroft_karp, lines 11-14 and 47-54

\* lines 11-14, 47: the locals of a fresh call
hk_fresh ==
    [match_left |-> <<>>, match_right |-> <<>>, keys |-> <<>>,
     dist |-> <<>>, matching_size |-> 0]

\* lines 51-52 once r = dfs(u) has answered.  A successful dfs(u) inserts
\* one new key into match_left, u itself: every other node it assigns came
\* from match_right and so is a key already.
top_done(r, u, s) ==
    [match_left |-> r.match_left,
     match_right |-> r.match_right,
     keys |-> IF r.ok THEN Append(s.keys, u) ELSE s.keys,
     dist |-> r.dist,
     matching_size |-> IF r.ok THEN s.matching_size + 1 ELSE s.matching_size]

\* lines 50-52 for an unmatched u: the top-level call dfs(u)
top_dfs(g, u, s) ==
    top_done(dfs(u, g, s.match_left, s.match_right, s.dist), u, s)

RECURSIVE dfs_round(_, _, _, _)
\* lines 49-52: 'for u in left_nodes'
dfs_round(g, left, i, s) ==
    IF i > Len(left)
    THEN s
    ELSE IF left[i] \notin DOMAIN s.match_left
         THEN dfs_round(g, left, i + 1, top_dfs(g, left[i], s))
         ELSE dfs_round(g, left, i + 1, s)

RECURSIVE hk_run(_, _, _)

\* line 48 once bfs() has left dist = d: another round, or the return
hk_round(g, left, s, d) ==
    IF bfs_found(d)
    THEN hk_run(g, left, dfs_round(g, left, 1, [s EXCEPT !.dist = d]))
    ELSE [s EXCEPT !.dist = d]

\* lines 48-52: 'while bfs()'
hk_run(g, left, s) ==
    hk_round(g, left, s, bfs(g, left, s.match_left, s.match_right, s.dist))

\* hopcroft_karp(graph, left_nodes), a whole call
hopcroft_karp(g, left) == hk_run(g, left, hk_fresh)

----------------------------------------------------------------------------
\* hopcroft_karp one step at a time: bfs() and dfs() statement by statement

\* line 24: dist[None] = INF
seed_end_stale(d) == IF None \in DOMAIN d THEN d ELSE Put(d, None, INF)

seed_end(d) == Put(d, None, INF)

\* line 30 with the sentinel only: a matched right node is never followed
unreached_free_only(d, u_prime) == u_prime = None /\ Get(d, u_prime, INF) = INF

\* line 30: dist.get(u_prime, INF) == INF
unreached(d, u_prime) == Get(d, u_prime, INF) = INF

\* line 41 forgotten: match_right keeps its old entry
record_right_lost(mr, v, u) == mr

\* line 41: match_right[v] = u
record_right(mr, v, u) == Put(mr, v, u)

\* lines 18-23: one iteration of 'for u in left_nodes' in bfs()
BfsSeed ==
    /\ pc = "seed"
    /\ seed_i <= Len(left_nodes)
    /\ IF left_nodes[seed_i] \notin DOMAIN match_left
       THEN /\ dist' = Put(dist, left_nodes[seed_i], 0)
            /\ queue' = Append(queue, left_nodes[seed_i])
       ELSE /\ dist' = Put(dist, left_nodes[seed_i], INF)
            /\ queue' = queue
    /\ seed_i' = seed_i + 1
    /\ UNCHANGED <<match_left, match_right, match_left_keys, matching_size,
                   idx, bfs_u, scan_j, stack, retval, hkhist, pc>>
    /\ UNCHANGED <<graph, left_nodes, msvars>>

\* line 24, after the loop of line 18
BfsSentinel ==
    /\ pc = "seed"
    /\ seed_i > Len(left_nodes)
    /\ dist' = seed_end(dist)
    /\ pc' = "pop"
    /\ UNCHANGED <<match_left, match_right, match_left_keys, matching_size,
                   hkpos, hkhist>>
    /\ UNCHANGED <<graph, left_nodes, msvars>>

\* lines 25-27: u = queue.popleft(), and the test dist[u] < dist[None]
BfsPop ==
    /\ pc = "pop"
    /\ queue # <<>>
    /\ bfs_u' = Head(queue)
    /\ queue' = Tail(queue)
    /\ scan_j' = 1
    /\ pc' = IF dist[Head(queue)] < dist[None] THEN "scan" ELSE "pop"
    /\ UNCHANGED <<hkdata, idx, seed_i, stack, retval, hkhist>>
    /\ UNCHANGED <<graph, left_nodes, msvars>>

\* lines 28-32: one iteration of 'for v in graph[u]' in bfs()
BfsScan ==
    /\ pc = "scan"
    /\ scan_j <= Len(Adj(graph, bfs_u))
    /\ IF unreached(dist, Get(match_right, Adj(graph, bfs_u)[scan_j], None))
       THEN /\ dist' = Put(dist,
                           Get(match_right, Adj(graph, bfs_u)[scan_j], None),
                           Succ(dist[bfs_u]))
            /\ queue' = Append(queue,
                           Get(match_right, Adj(graph, bfs_u)[scan_j], None))
       ELSE /\ dist' = dist
            /\ queue' = queue
    /\ scan_j' = scan_j + 1
    /\ UNCHANGED <<match_left, match_right, match_left_keys, matching_size,
                   idx, seed_i, bfs_u, stack, retval, hkhist, pc>>
    /\ UNCHANGED <<graph, left_nodes, msvars>>

\* line 28 exhausted: back to 'while queue'
BfsScanEnd ==
    /\ pc = "scan"
    /\ scan_j > Len(Adj(graph, bfs_u))
    /\ pc' = "pop"
    /\ UNCHANGED <<hkdata, hkpos, hkhist>>
    /\ UNCHANGED <<graph, left_nodes, msvars>>

\* line 33 and line 48: bfs() returns dist[None] != INF; on True the loop of
\* line 49 starts, on False hopcroft_karp returns match_left (line 54)
BfsReturn ==
    /\ pc = "pop"
    /\ queue = <<>>
    /\ IF bfs_found(dist)
       THEN /\ pc' = "for"
            /\ idx' = 1
            /\ round_base' = matching_size
            /\ rounds' = rounds + 1
       ELSE /\ pc' = "done"
            /\ UNCHANGED <<idx, round_base, rounds>>
    /\ UNCHANGED <<hkdata, seed_i, queue, bfs_u, scan_j, stack, retval,
                   call_left, call_right>>
    /\ UNCHANGED <<graph, left_nodes, msvars>>

\* lines 49-51: an unmatched u, dfs(u) is called
ForCall ==
    /\ pc = "for"
    /\ idx <= Len(left_nodes)
    /\ left_nodes[idx] \notin DOMAIN match_left
    /\ stack' = <<[u |-> left_nodes[idx], j |-> 1]>>
    /\ call_left' = match_left
    /\ call_right' = match_right
    /\ pc' = "dfs"
    /\ UNCHANGED <<hkdata, idx, seed_i, queue, bfs_u, scan_j, retval,
                   round_base, rounds>>
    /\ UNCHANGED <<graph, left_nodes, msvars>>

\* lines 49-50: a u that is matched already
ForSkip ==
    /\ pc = "for"
    /\ idx <= Len(left_nodes)
    /\ left_nodes[idx] \in DOMAIN match_left
    /\ idx' = idx + 1
    /\ UNCHANGED <<hkdata, seed_i, queue, bfs_u, scan_j, stack, retval,
                   hkhist, pc>>
    /\ UNCHANGED <<graph, left_nodes, msvars>>

\* line 49 exhausted: the loop condition of line 48 calls bfs() again
\* (line 17: queue = deque())
ForEnd ==
    /\ pc = "for"
    /\ idx > Len(left_nodes)
    /\ seed_i' = 1
    /\ queue' = <<>>
    /\ pc' = "seed"
    /\ UNCHANGED <<hkdata, idx, bfs_u, scan_j, stack, retval, hkhist>>
    /\ UNCHANGED <<graph, left_nodes, msvars>>

\* the frame of the innermost dfs call
Top == stack[Len(stack)]

\* the stack without its innermost frame
Pop(st) == SubSeq(st, 1, Len(st) - 1)

\* the innermost frame moved on to its next v
Advance(st) == [st EXCEPT ![Len(st)].j = st[Len(st)].j + 1]

\* v of the innermost frame, and u_prime = match_right.get(v, None)
TopV == Adj(graph, Top.u)[Top.j]

TopUPrime == Get(match_right, TopV, None)

\* lines 36, 45: dfs(None) returns True
DfsNone ==
    /\ pc = "dfs"
    /\ Top.u = None
    /\ stack' = Pop(stack)
    /\ retval' = TRUE
    /\ pc' = "ret"
    /\ UNCHANGED <<hkdata, idx, seed_i, queue, bfs_u, scan_j, hkhist>>
    /\ UNCHANGED <<graph, left_nodes, msvars>>

\* lines 37-39: the next v of 'for v in graph[u]'; dfs(u_prime) is called
\* when u_prime is one layer further, otherwise the loop goes on
DfsEdge ==
    /\ pc = "dfs"
    /\ Top.u # None
    /\ Top.j <= Len(Adj(graph, Top.u))
    /\ IF Get(dist, TopUPrime, INF) = Succ(dist[Top.u])
       THEN stack' = Append(stack, [u |-> TopUPrime, j |-> 1])
       ELSE stack' = Advance(stack)
    /\ UNCHANGED <<hkdata, idx, seed_i, queue, bfs_u, scan_j, retval,
                   hkhist, pc>>
    /\ UNCHANGED <<graph, left_nodes, msvars>>

\* lines 43-44: line 37 exhausted, dist[u] = INF and dfs(u) returns False
DfsExhausted ==
    /\ pc = "dfs"
    /\ Top.u # None
    /\ Top.j > Len(Adj(graph, Top.u))
    /\ dist' = Put(dist, Top.u, INF)
    /\ stack' = Pop(stack)
    /\ retval' = FALSE
    /\ pc' = "ret"
    /\ UNCHANGED <<match_left, match_right, match_left_keys, matching_size,
                   idx, seed_i, queue, bfs_u, scan_j, hkhist>>
    /\ UNCHANGED <<graph, left_nodes, msvars>>

\* lines 39-42: dfs(u_prime) has returned to dfs(u).  On True the edge is
\* recorded and dfs(u) returns True; on False the loop of line 37 goes on
DfsReturnInner ==
    /\ pc = "ret"
    /\ stack # <<>>
    /\ IF retval
       THEN /\ match_left' = Put(match_left, Top.u, TopV)
            /\ match_right' = record_right(match_right, TopV, Top.u)
            /\ match_left_keys' = IF Top.u \in DOMAIN match_left
                                  THEN match_left_keys
                                  ELSE Append(match_left_keys, Top.u)
            /\ stack' = Pop(stack)
            /\ pc' = "ret"
       ELSE /\ stack' = Advance(stack)
            /\ pc' = "dfs"
            /\ UNCHANGED <<match_left, match_right, match_left_keys>>
    /\ UNCHANGED <<dist, matching_size, idx, seed_i, queue, bfs_u, scan_j,
                   retval, hkhist>>
    /\ UNCHANGED <<graph, left_nodes, msvars>>

\* lines 51-52: the top-level dfs(u) has returned to the loop of line 49
DfsReturnTop ==
    /\ pc = "ret"
    /\ stack = <<>>
    /\ matching_size' = IF retval THEN matching_size + 1 ELSE matching_size
    /\ idx' = idx + 1
    /\ pc' = "for"
    /\ UNCHANGED <<match_left, match_right, match_left_keys, dist, seed_i,
                   queue, bfs_u, scan_j, stack, retval, hkhist>>
    /\ UNCHANGED <<graph, left_nodes, msvars>>

----------------------------------------------------------------------------
\* hopcroft_karp on its own: every graph with at most MaxNodes nodes

\* the lists over 1..m without repetition: the adjacency lists of a graph
Lists(m) ==
    {a \in UNION {[1..k -> 1..m] : k \in 0..m} :
        \A i, j \in DOMAIN a : i # j => a[i] # a[j]}

\* hopcroft_karp(graph, left_nodes) has been called, lines 11-14 and 47, with
\* a graph of n left and m right nodes; the first bfs() is about to run
InitHK ==
    /\ \E n \in 0..MaxNodes : \E m \in 0..(MaxNodes - n) :
          /\ left_nodes = [i \in 1..n |-> i]
          /\ graph \in [1..n -> Lists(m)]
    /\ match_left = hk_fresh.match_left
    /\ match_right = hk_fresh.match_right
    /\ match_left_keys = hk_fresh.keys
    /\ dist = hk_fresh.dist
    /\ matching_size = hk_fresh.matching_size
    /\ idx = 0
    /\ seed_i = 1
    /\ queue = <<>>
    /\ bfs_u = None
    /\ scan_j = 0
    /\ stack = <<>>
    /\ retval = FALSE
    /\ call_left = <<>>
    /\ call_right = <<>>
    /\ round_base = 0
    /\ rounds = 0
    /\ pc = "seed"
    /\ students_info = <<>>
    /\ swaps = <<>>
    /\ swap_keys = <<>>
    /\ student_lookup = <<>>
    /\ processed_pairs = {}
    /\ paired_matches = <<>>
    /\ kidx = 0
    /\ calls = 0
    /\ results = <<>>

NextHK ==
    \/ BfsSeed
    \/ BfsSentinel
    \/ BfsPop
    \/ BfsScan
    \/ BfsScanEnd
    \/ BfsReturn
    \/ ForCall
    \/ ForSkip
    \/ ForEnd
    \/ DfsNone
    \/ DfsEdge
    \/ DfsExhausted
    \/ DfsReturnInner
    \/ DfsReturnTop

SpecHK == InitHK /\ [][NextHK]_vars

\* the interpreter runs the call on: nothing suspends it
FairSpecHK == SpecHK /\ WF_vars(NextHK)

----------------------------------------------------------------------------
\* match_student_pairs, lines 56-138

\* a record is the tuple (student_id, current_group, desired_group,
\* accept_swap, teammate_id) of line 75
student_id(record) == record[1]

current_group(record) == record[2]

desired_group(record) == record[3]

accept_swap(record) == record[4]

teammate_id(record) == record[5]

\* the key (current_group, desired_group) of line 80
swap_key(record) == <<current_group(record), desired_group(record)>>

\* line 91: reverse_key = (group_B, group_A)
reverse_key(key) == <<key[2], key[1]>>

\* lines 76-80 for one record, on s = [swaps, keys, student_lookup]
partition_step(record, s) ==
    IF current_group(record) = desired_group(record)
    THEN [s EXCEPT !.student_lookup = Put(@, student_id(record), record)]
    ELSE [swaps |-> Put(s.swaps, swap_key(record),
                        Append(Get(s.swaps, swap_key(record), <<>>), record)),
          keys |-> IF swap_key(record) \in DOMAIN s.swaps
                   THEN s.keys
                   ELSE Append(s.keys, swap_key(record)),
          student_lookup |-> Put(s.student_lookup, student_id(record), record)]

RECURSIVE partition(_, _, _)
\* lines 72-80: 'for record in students_info' from position i
partition(info, i, s) ==
    IF i > Len(info)
    THEN s
    ELSE partition(info, i + 1, partition_step(info[i], s))

\* lines 112-118: the swap of record_i with record_j is allowed
valid(record_i, record_j) ==
    /\ ~(~accept_swap(record_i) /\ teammate_id(record_i) # student_id(record_j))
    /\ ~(~accept_swap(record_j) /\ teammate_id(record_j) # student_id(record_i))

RECURSIVE add_edges(_, _, _, _)
\* lines 107-120: 'for record_j in V' from position j
add_edges(record_i, V, j, g) ==
    IF j > Len(V)
    THEN g
    ELSE add_edges(record_i, V, j + 1,
                   IF valid(record_i, V[j])
                   THEN Put(g, student_id(record_i),
                            Append(Adj(g, student_id(record_i)),
                                   student_id(V[j])))
                   ELSE g)

RECURSIVE build_graph(_, _, _, _)
\* lines 101-120: 'for record_i in U' from position i; the graph
build_graph(U, V, i, g) ==
    IF i > Len(U)
    THEN g
    ELSE build_graph(U, V, i + 1, add_edges(U[i], V, 1, g))

\* lines 102, 105: left_ids
left_ids(U) == [i \in 1..Len(U) |-> student_id(U[i])]

\* line 132: tuple(sorted([student_i, student_j]))
sorted_pair(student_i, student_j) ==
    IF student_i <= student_j
    THEN <<student_i, student_j>>
    ELSE <<student_j, student_i>>

\* lines 130-133: the pairs of match_left.items(), in the dict's order
pairs_of(ml, keys) ==
    [k \in 1..Len(keys) |-> sorted_pair(keys[k], ml[keys[k]])]

\* line 87 forgotten: the set of an earlier call is still there
processed_pairs_kept(old) == old

\* line 87: processed_pairs = set()
processed_pairs_fresh(old) == {}

\* lines 72-87: a call of match_student_pairs(students_info) up to the loop
\* of line 88
Call ==
    /\ pc = "idle"
    /\ calls < MaxCalls
    /\ calls' = calls + 1
    /\ \E s \in {partition(students_info, 1,
                           [swaps |-> <<>>, keys |-> <<>>,
                            student_lookup |-> <<>>])} :
          /\ swaps' = s.swaps
          /\ swap_keys' = s.keys
          /\ student_lookup' = s.student_lookup
    /\ paired_matches' = <<>>
    /\ processed_pairs' = processed_pairs_fresh(processed_pairs)
    /\ kidx' = 1
    /\ pc' = "keys"
    /\ UNCHANGED <<hkvars, students_info, results>>

\* lines 88-90: a key that is processed already
KeyAlreadyProcessed ==
    /\ pc = "keys"
    /\ kidx <= Len(swap_keys)
    /\ swap_keys[kidx] \in processed_pairs
    /\ kidx' = kidx + 1
    /\ UNCHANGED <<hkvars, students_info, swaps, swap_keys, student_lookup,
                   processed_pairs, paired_matches, calls, results, pc>>

\* lines 91-95: nobody asks for the reverse swap
KeyNoReverse ==
    /\ pc = "keys"
    /\ kidx <= Len(swap_keys)
    /\ swap_keys[kidx] \notin processed_pairs
    /\ reverse_key(swap_keys[kidx]) \notin DOMAIN swaps
    /\ processed_pairs' = processed_pairs \cup {swap_keys[kidx]}
    /\ kidx' = kidx + 1
    /\ UNCHANGED <<hkvars, students_info, swaps, swap_keys, student_lookup,
                   paired_matches, calls, results, pc>>

\* lines 96-136: the graph of U and V is built, hopcroft_karp matches it and
\* its pairs are appended.  U is never empty (a key of swaps has a record),
\* so the branch of lines 122-125 is not taken.
KeyMatch ==
    /\ pc = "keys"
    /\ kidx <= Len(swap_keys)
    /\ swap_keys[kidx] \notin processed_pairs
    /\ reverse_key(swap_keys[kidx]) \in DOMAIN swaps
    /\ graph' = build_graph(swaps[swap_keys[kidx]],
                            swaps[reverse_key(swap_keys[kidx])], 1, <<>>)
    /\ left_nodes' = left_ids(swaps[swap_keys[kidx]])
    /\ IF left_nodes' = <<>>
       THEN UNCHANGED <<hkdata, paired_matches>>
       ELSE \E r \in {hopcroft_karp(graph', left_nodes')} :
               /\ match_left' = r.match_left
               /\ match_right' = r.match_right
               /\ match_left_keys' = r.keys
               /\ dist' = r.dist
               /\ matching_size' = r.matching_size
               /\ paired_matches' =
                      paired_matches \o pairs_of(r.match_left, r.keys)
    /\ processed_pairs' = processed_pairs \cup
                             {swap_keys[kidx], reverse_key(swap_keys[kidx])}
    /\ kidx' = kidx + 1
    /\ UNCHANGED <<hkpos, hkhist, students_info, swaps, swap_keys,
                   student_lookup, calls, results, pc>>

\* line 138: return paired_matches
Return ==
    /\ pc = "keys"
    /\ kidx > Len(swap_keys)
    /\ results' = Append(results, paired_matches)
    /\ pc' = "idle"
    /\ UNCHANGED <<hkvars, students_info, swaps, swap_keys, student_lookup,
                   processed_pairs, paired_matches, kidx, calls>>

\* the records a caller can pass; a flexible record's teammate_id is never
\* read (lines 114, 117), so it is None there
Records ==
    {record \in (1..NumIds) \X (1..NumGroups) \X (1..NumGroups) \X BOOLEAN
                    \X ((1..NumIds) \cup {None}) :
        accept_swap(record) => teammate_id(record) = None}

\* every list of at most MaxStudents records, before the first call
Init ==
    /\ \E n \in 0..MaxStudents : students_info \in [1..n -> Records]
    /\ swaps = <<>>
    /\ swap_keys = <<>>
    /\ student_lookup = <<>>
    /\ processed_pairs = {}
    /\ paired_matches = <<>>
    /\ kidx = 0
    /\ calls = 0
    /\ results = <<>>
    /\ graph = <<>>
    /\ left_nodes = <<>>
    /\ match_left = hk_fresh.match_left
    /\ match_right = hk_fresh.match_right
    /\ match_left_keys = hk_fresh.keys
    /\ dist = hk_fresh.dist
    /\ matching_size = hk_fresh.matching_size
    /\ idx = 0
    /\ seed_i = 1
    /\ queue = <<>>
    /\ bfs_u = None
    /\ scan_j = 0
    /\ stack = <<>>
    /\ retval = FALSE
    /\ call_left = <<>>
    /\ call_right = <<>>
    /\ round_base = 0
    /\ rounds = 0
    /\ pc = "idle"

Next ==
    \/ Call
    \/ KeyAlreadyProcessed
    \/ KeyNoReverse
    \/ KeyMatch
    \/ Return

Spec == Init /\ [][Next]_vars

----------------------------------------------------------------------------
\* Properties of hopcroft_karp (SpecHK, FairSpecHK)

Range(f) == {f[x] : x \in DOMAIN f}

Min(a, b) == IF a <= b THEN a ELSE b

\* the right nodes of the graph, and its edges
RightNodes(g) == UNION {Range(g[u]) : u \in DOMAIN g}

Edges(g) == {e \in (DOMAIN g) \X RightNodes(g) : e[2] \in Range(g[e[1]])}

\* a set of edges no two of which share a node
IsMatching(M) == \A e, f \in M : e # f => e[1] # f[1] /\ e[2] # f[2]

\* brute force: the largest size of a matching among all sets of edges
MaximumMatchingSize(g) ==
    LET sizes == {Cardinality(M) : M \in {X \in SUBSET Edges(g) : IsMatching(X)}}
    IN  CHOOSE k \in sizes : \A l \in sizes : l <= k

\* C1: the mapping hopcroft_karp returns has as many entries as a maximum
\* matching of the graph found by brute force over all sets of edges.
C1_Maximum ==
    pc = "done" =>
        Cardinality(DOMAIN match_left) = MaximumMatchingSize(graph)

\* a call that needed a second round (an augmenting path through a matched
\* edge) and returned two pairs
C1_Witness ==
    pc = "done" /\ rounds >= 2 /\ Cardinality(DOMAIN match_left) = 2

\* C8: hopcroft_karp terminates: every round whose bfs() returned True adds at
\* least one pair, the matching size never decreases and never exceeds
\* min(number of left nodes, number of right nodes), and the call returns.
C8_Terminates ==
    /\ <>(pc = "done")
    /\ [][(pc = "for" /\ pc' = "seed") => matching_size > round_base]_vars
    /\ [][matching_size' >= matching_size]_vars
    /\ [](pc \in {"seed", "pop", "scan", "for", "done"} =>
              matching_size = Cardinality(DOMAIN match_left))
    /\ [](Cardinality(DOMAIN match_left) <=
              Min(Len(left_nodes), Cardinality(RightNodes(graph))))

\* a call that returned after two productive rounds with every right node
\* matched and a left node left over: the bound is attained
C8_Witness ==
    /\ pc = "done"
    /\ rounds = 2
    /\ matching_size = Cardinality(RightNodes(graph))
    /\ matching_size < Len(left_nodes)

\* C10: between top-level dfs calls and at the return, match_left and
\* match_right are inverse partial maps whose entries are edges of the graph,
\* and a top-level dfs that fails changes neither map.
C10_Inverse ==
    /\ pc \in {"seed", "pop", "scan", "for", "done"} =>
          /\ \A u \in DOMAIN match_left :
                /\ match_left[u] \in DOMAIN match_right
                /\ match_right[match_left[u]] = u
                /\ <<u, match_left[u]>> \in Edges(graph)
          /\ \A v \in DOMAIN match_right :
                /\ match_right[v] \in DOMAIN match_left
                /\ match_left[match_right[v]] = v
    /\ (pc = "for" /\ idx > 1 /\ ~retval) =>
          (match_left = call_left /\ match_right = call_right)

\* a top-level dfs has just failed (its node is still unmatched) while the
\* maps hold a pair
C10_Witness ==
    /\ pc = "for"
    /\ idx > 1
    /\ ~retval
    /\ left_nodes[idx - 1] \notin DOMAIN match_left
    /\ match_left # <<>>

\* match_left_keys lists the keys of match_left, each once
KeysAreDomain ==
    /\ Range(match_left_keys) = DOMAIN match_left
    /\ Len(match_left_keys) = Cardinality(DOMAIN match_left)

\* the step-by-step run returns what the whole call hopcroft_karp computes
StepsAgreeWithCall ==
    pc = "done" =>
        LET r == hopcroft_karp(graph, left_nodes) IN
        /\ match_left = r.match_left
        /\ match_left_keys = r.keys

----------------------------------------------------------------------------
\* Properties of match_student_pairs (Spec)

\* the ids of a pair
IdsOf(pair) == {pair[1], pair[2]}

\* every id that occurs in a returned pair
PairedIds ==
    UNION {UNION {IdsOf(results[k][p]) : p \in DOMAIN results[k]} :
              k \in DOMAIN results}

\* section 7 of the spec: a non-flexible request without a partner, or naming
\* itself
InvalidRequest(record) ==
    /\ ~accept_swap(record)
    /\ teammate_id(record) \in {None, student_id(record)}

\* section 7 of the spec: two requests share an id
DuplicateId ==
    \E i, j \in DOMAIN students_info :
        i # j /\ student_id(students_info[i]) = student_id(students_info[j])

\* the request an id stands for: the record student_lookup holds (line 76)
RequestOf(id) == student_lookup[id]

\* C2: in every returned list no id occurs in more than one pair, and no pair
\* holds the same id twice.
C2_Uniqueness ==
    \A k \in DOMAIN results :
        /\ \A p \in DOMAIN results[k] : results[k][p][1] # results[k][p][2]
        /\ \A p, q \in DOMAIN results[k] :
              p # q => IdsOf(results[k][p]) \cap IdsOf(results[k][q]) = {}

\* C3: for every returned pair (s1, s2), a non-flexible s1 names s2 as its
\* teammate and a non-flexible s2 names s1.
C3_Consent ==
    \A k \in DOMAIN results : \A p \in DOMAIN results[k] :
        /\ ~accept_swap(RequestOf(results[k][p][1])) =>
              teammate_id(RequestOf(results[k][p][1])) = results[k][p][2]
        /\ ~accept_swap(RequestOf(results[k][p][2])) =>
              teammate_id(RequestOf(results[k][p][2])) = results[k][p][1]

\* C4: for every returned pair (s1, s2), s1's current group is s2's desired
\* group and s2's current group is s1's desired group.
C4_Validity ==
    \A k \in DOMAIN results : \A p \in DOMAIN results[k] :
        /\ current_group(RequestOf(results[k][p][1])) =
              desired_group(RequestOf(results[k][p][2]))
        /\ current_group(RequestOf(results[k][p][2])) =
              desired_group(RequestOf(results[k][p][1]))

\* C5: when the input holds an invalid request the run fails before any
\* matching: no graph is built, no pair is recorded and no list is returned.
C5_InvalidRequestError ==
    (\E i \in DOMAIN students_info : InvalidRequest(students_info[i])) =>
        (left_nodes = <<>> /\ paired_matches = <<>> /\ results = <<>>)

\* C6: when two requests of the input share an id the run fails before any
\* graph is built or matched, and no list of pairs is returned.
C6_DuplicateIdError ==
    DuplicateId =>
        (graph = <<>> /\ left_nodes = <<>> /\ paired_matches = <<>>
            /\ results = <<>>)

\* C7: the id of a request whose current group is its desired group is in no
\* returned pair and is no node of a graph handed to hopcroft_karp.
C7_Exclusion ==
    \A i \in DOMAIN students_info :
        current_group(students_info[i]) = desired_group(students_info[i]) =>
            /\ student_id(students_info[i]) \notin PairedIds
            /\ student_id(students_info[i]) \notin Range(left_nodes)
            /\ student_id(students_info[i]) \notin RightNodes(graph)

\* the records of the input that ask for the swap key, in input order
Asking(key) ==
    LET Asks(record) == swap_key(record) = key IN
    SelectSeq(students_info, Asks)

\* the position of the first record of the input that asks for key
FirstAsking(key) ==
    CHOOSE i \in DOMAIN students_info :
        /\ swap_key(students_info[i]) = key
        /\ \A j \in 1..(i - 1) : swap_key(students_info[j]) # key

PairsStemFromRecords ==
    \A k \in DOMAIN results : \A p \in DOMAIN results[k] :
        \E i, j \in DOMAIN students_info :
            /\ IdsOf(results[k][p]) =
                  {student_id(students_info[i]), student_id(students_info[j])}
            /\ current_group(students_info[i]) # desired_group(students_info[i])
            /\ swap_key(students_info[i]) = reverse_key(swap_key(students_info[j]))
            /\ valid(students_info[i], students_info[j])

\* on an input without a shared id, C2, C3, C4 and C7 hold
OnUniqueIds ==
    ~DuplicateId =>
        (C2_Uniqueness /\ C3_Consent /\ C4_Validity /\ C7_Exclusion)

\* the matching of every partition is a maximum matching of its graph
PartitionMatchingMaximum ==
    (pc = "keys" /\ left_nodes # <<>>) =>
        Cardinality(DOMAIN match_left) = MaximumMatchingSize(graph)

====
